---- MODULE Spec2Model ----
(***************************************************************************)
(* The graph state store of the ReactFlow playground                       *)
(* (src/src/store/useFlowStore.ts) as a state machine: the node and edge   *)
(* collections, the selection snapshot, the localStorage record, the       *)
(* pending setTimeout callbacks and the wall clock.  One action per store  *)
(* operation; JSON.stringify / JSON.parse are modelled as a conversion to  *)
(* and from a sequence of text tokens.                                     *)
(***************************************************************************)
EXTENDS Integers, Sequences, FiniteSets, TLC

VARIABLES
  nodes,         \* FlowState.nodes: sequence of node objects
  edges,         \* FlowState.edges: sequence of edge objects
  selectedNode,  \* FlowState.selectedNode: a node object or null
  storage,       \* localStorage[STORAGE_KEY]: text, <<>> when nothing is stored
  timers,        \* number of pending setTimeout(saveToLocalStorage, 100) callbacks
  now,           \* Date.now()
  file,          \* the text of the last exported workflow file, <<>> when none
  out,           \* what the last operation did to its caller: an alert, an exception
  lastOp,        \* the last operation run and its arguments
  pre,           \* the store, record and timers as they were when lastOp was called
  savedFrom,     \* nodes and edges that the last successful storage write serialised
  exportedFrom,  \* nodes and edges that the last exportToJSON call serialised
  seen,          \* the store states the set() calls of lastOp showed the subscribers
  events         \* number of events so far: operations, timer callbacks, clock ticks

vars == <<nodes, edges, selectedNode, storage, timers, now, file, out, lastOp, pre,
          savedFrom, exportedFrom, seen, events>>

----------------------------------------------------------------------------
(* Bounds of the model *)

\* events (store operations, timer callbacks, clock ticks) in one behaviour
MaxEvents == 4
\* largest value of the wall clock
MaxClock == 1
\* largest count passed to generateBulkNodes
MaxBulk == 2

----------------------------------------------------------------------------
(* JavaScript values *)

\* JavaScript null
null == [tag |-> "null"]

\* JavaScript undefined, where it is stored as a value
undefined == [tag |-> "undefined"]

\* whether key is an own key of the object; reading a key that is not gives undefined
Has(obj, key) == key \in DOMAIN obj

\* { ...a, ...b }: the keys of both, those of b overwrite
Spread(a, b) == [k \in DOMAIN a \cup DOMAIN b |-> IF k \in DOMAIN b THEN b[k] ELSE a[k]]

\* A value that is not an array, held where the store expects one (nodes, edges):
\* kept apart from every list by its index 0
NotAnArray(v) == [i \in {0} |-> v]

\* Array.isArray
IsArray(x) == 0 \notin DOMAIN x

\* Array.prototype.filter: the elements that pass the test, in their order
Filter(seq, Keep(_)) == SelectSeq(seq, Keep)

\* Array.prototype.map
Map(seq, F(_)) == [i \in 1..Len(seq) |-> F(seq[i])]

----------------------------------------------------------------------------
(* JSON text.  A text is the sequence of its tokens, each <<kind, text>>:      *)
(* punctuation "p", a quoted string "str", a number "num" (with its decimal    *)
(* digits) and a bare word "lit" (true, false, null, or a word that is not     *)
(* JSON).                                                                      *)

Digit == <<"0", "1", "2", "3", "4", "5", "6", "7", "8", "9">>

\* the decimal digits of a natural number, most significant first
RECURSIVE Digits(_)
Digits(n) == IF n < 10 THEN <<Digit[n + 1]>> ELSE Append(Digits(n \div 10), Digit[(n % 10) + 1])

\* the digits run together, as in a template literal `${n}`
RECURSIVE Concat(_)
Concat(strs) == IF strs = <<>> THEN "" ELSE Head(strs) \o Concat(Tail(strs))

NumText(n) == Concat(Digits(n))

DigitValue(d) == CHOOSE v \in 0..9 : Digit[v + 1] = d

\* the number a digit sequence denotes
RECURSIVE ParseInt(_)
ParseInt(ds) ==
  IF Len(ds) = 1 THEN DigitValue(ds[1])
  ELSE 10 * ParseInt(SubSeq(ds, 1, Len(ds) - 1)) + DigitValue(ds[Len(ds)])

P(c) == <<"p", c>>
StrTok(s) == <<"str", s>>
NumTok(n) == <<"num", Digits(n)>>
Lit(w) == <<"lit", w>>

\* JSON.stringify writes the own keys of an object, each with its value; a key the
\* object does not have (its value is undefined) is not written
Member(obj, key, Text(_)) ==
  IF Has(obj, key) THEN <<StrTok(key)>> \o Text(obj[key]) ELSE <<>>

StringText(v) == <<StrTok(v)>>
NumberText(v) == <<NumTok(v)>>
BooleanText(v) == <<Lit(IF v THEN "true" ELSE "false")>>

PositionText(position) ==
  <<P("{")>> \o Member(position, "x", NumberText) \o Member(position, "y", NumberText)
  \o <<P("}")>>

DataText(data) ==
  <<P("{")>> \o Member(data, "label", StringText) \o Member(data, "description", StringText)
  \o Member(data, "color", StringText) \o <<P("}")>>

NodeText(node) ==
  <<P("{")>> \o Member(node, "id", StringText) \o Member(node, "position", PositionText)
  \o Member(node, "data", DataText) \o Member(node, "type", StringText)
  \o Member(node, "hidden", BooleanText) \o <<P("}")>>

\* an edge written without its animated flag
EdgeTextWithoutAnimated(edge) ==
  <<P("{")>> \o Member(edge, "id", StringText) \o Member(edge, "source", StringText)
  \o Member(edge, "target", StringText) \o <<P("}")>>

EdgeText(edge) ==
  <<P("{")>> \o Member(edge, "id", StringText) \o Member(edge, "source", StringText)
  \o Member(edge, "target", StringText) \o Member(edge, "animated", BooleanText)
  \o <<P("}")>>

RECURSIVE NodeTexts(_)
NodeTexts(nds) == IF nds = <<>> THEN <<>> ELSE NodeText(Head(nds)) \o NodeTexts(Tail(nds))

RECURSIVE EdgeTexts(_)
EdgeTexts(eds) == IF eds = <<>> THEN <<>> ELSE EdgeText(Head(eds)) \o EdgeTexts(Tail(eds))

NodesText(nds) == <<P("[")>> \o NodeTexts(nds) \o <<P("]")>>
EdgesText(eds) == <<P("[")>> \o EdgeTexts(eds) \o <<P("]")>>

\* JSON.stringify of { nodes, edges } and of { nodes, edges, version, exportedAt }
JSONstringify(state) ==
  <<P("{")>> \o Member(state, "nodes", NodesText) \o Member(state, "edges", EdgesText)
  \o Member(state, "version", StringText) \o Member(state, "exportedAt", StringText)
  \o <<P("}")>>

\* JSON.parse.  A parsed value carries its kind, as typeof and Array.isArray tell it.
Fail == [ok |-> FALSE]
Parsed(kind, val, next) == [ok |-> TRUE, v |-> [kind |-> kind, val |-> val], i |-> next]

RECURSIVE ParseValue(_, _), ParseMembers(_, _, _), ParseElements(_, _, _)
ParseValue(text, i) ==
  IF i > Len(text) THEN Fail
  ELSE LET kind == text[i][1]
           tok == text[i][2] IN
    CASE kind = "str" -> Parsed("string", tok, i + 1)
      [] kind = "num" -> Parsed("number", ParseInt(tok), i + 1)
      [] kind = "lit" ->
           (IF tok = "true" THEN Parsed("boolean", TRUE, i + 1)
            ELSE IF tok = "false" THEN Parsed("boolean", FALSE, i + 1)
            ELSE IF tok = "null" THEN Parsed("null", null, i + 1)
            ELSE Fail)
      [] kind = "p" ->
           (IF tok = "{" THEN ParseMembers(text, i + 1, <<>>)
            ELSE IF tok = "[" THEN ParseElements(text, i + 1, <<>>)
            ELSE Fail)

\* the members of an object up to its closing brace: a quoted key, then its value
ParseMembers(text, i, acc) ==
  IF i > Len(text) THEN Fail
  ELSE IF text[i][1] = "p"
    THEN (IF text[i][2] = "}" THEN Parsed("object", acc, i + 1) ELSE Fail)
  ELSE IF text[i][1] # "str" THEN Fail
  ELSE LET r == ParseValue(text, i + 1) IN
    IF ~r.ok THEN Fail ELSE ParseMembers(text, r.i, (text[i][2] :> r.v) @@ acc)

\* the elements of an array up to its closing bracket
ParseElements(text, i, acc) ==
  IF i > Len(text) THEN Fail
  ELSE IF text[i][1] = "p" /\ text[i][2] = "]" THEN Parsed("array", acc, i + 1)
  ELSE LET r == ParseValue(text, i) IN
    IF ~r.ok THEN Fail ELSE ParseElements(text, r.i, Append(acc, r.v))

\* [ok |-> FALSE] is a SyntaxError
JSONparse(text) ==
  LET r == ParseValue(text, 1) IN
    IF r.ok /\ r.i = Len(text) + 1 THEN [ok |-> TRUE, v |-> r.v] ELSE Fail

\* the JavaScript value of a parsed value
RECURSIVE Value(_)
Value(pv) ==
  CASE pv.kind = "object" -> [k \in DOMAIN pv.val |-> Value(pv.val[k])]
    [] pv.kind = "array" -> [j \in 1..Len(pv.val) |-> Value(pv.val[j])]
    [] OTHER -> pv.val

\* what the store holds when set() is given a parsed value as nodes or edges
Held(pv) == IF pv.kind = "array" THEN Value(pv) ELSE NotAnArray(Value(pv))

\* obj.key of a parsed value that is not null: undefined when it has no such key
UndefinedValue == [kind |-> "undefined", val |-> undefined]
Get(pv, key) ==
  IF pv.kind = "object" /\ Has(pv.val, key) THEN pv.val[key] ELSE UndefinedValue

\* ToBoolean
Truthy(pv) ==
  CASE pv.kind \in {"undefined", "null"} -> FALSE
    [] pv.kind = "boolean" -> pv.val
    [] pv.kind = "number" -> pv.val # 0
    [] pv.kind = "string" -> pv.val # ""
    [] OTHER -> TRUE

----------------------------------------------------------------------------
(* The store *)

initialNodes ==
  << [id |-> "1", position |-> [x |-> 250, y |-> 100],
      data |-> [label |-> "Start Node", description |-> "This is the starting point"],
      type |-> "default"],
     [id |-> "2", position |-> [x |-> 250, y |-> 250],
      data |-> [label |-> "Process Node", description |-> "Processing happens here"],
      type |-> "default"] >>

initialEdges == << [id |-> "e1-2", source |-> "1", target |-> "2", animated |-> TRUE] >>

\* what an operation gives its caller when it returns normally and silently
Returned == [alert |-> FALSE, threw |-> FALSE]

Snapshot ==
  [nodes |-> nodes, edges |-> edges, selectedNode |-> selectedNode,
   storage |-> storage, timers |-> timers]

Init ==
  /\ nodes = initialNodes
  /\ edges = initialEdges
  /\ selectedNode = null
  /\ storage = <<>>
  /\ timers = 0
  /\ now = 0
  /\ file = <<>>
  /\ out = Returned
  /\ lastOp = [op |-> "create"]
  /\ pre = [nodes |-> initialNodes, edges |-> initialEdges, selectedNode |-> null,
            storage |-> <<>>, timers |-> 0]
  /\ savedFrom = [nodes |-> <<>>, edges |-> <<>>]
  /\ exportedFrom = [nodes |-> <<>>, edges |-> <<>>]
  /\ seen = <<>>
  /\ events = 0

\* the state a set() call leaves and notifies the subscribers of
Store(nds, eds, sel) == [nodes |-> nds, edges |-> eds, selectedNode |-> sel]

\* One store operation run to completion: it leaves the store with the values
\* given, its set() calls have shown the subscribers the states notified, it has
\* scheduled timeouts callbacks (setTimeout(..., 100)) and gives result to the
\* caller.  The record, the clock and the exported file are left alone.
Step(op, nds, eds, sel, timeouts, result, notified) ==
  /\ events < MaxEvents
  /\ nodes' = nds
  /\ edges' = eds
  /\ selectedNode' = sel
  /\ timers' = timers + timeouts
  /\ out' = result
  /\ lastOp' = op
  /\ pre' = Snapshot
  /\ seen' = notified
  /\ events' = events + 1
  /\ UNCHANGED <<storage, now, file, savedFrom, exportedFrom>>

\* an operation that calls set() once
Run(op, nds, eds, sel, timeouts, result) ==
  Step(op, nds, eds, sel, timeouts, result, <<Store(nds, eds, sel)>>)

\* what an operation gives its caller when a TypeError leaves it uncaught
Threw == [alert |-> FALSE, threw |-> TRUE]

\* an operation that throws before its set() call: nothing is set or scheduled
Throw(op) == Step(op, nodes, edges, selectedNode, 0, Threw, <<>>)

----------------------------------------------------------------------------
(* The rendering library's helpers, as spec.md section 4.1 describes them *)

\* one change applied to the node collection: a removal drops the nodes with the
\* id, a position change moves them; an unknown id changes nothing
applyNodeChange(change, nds) ==
  CASE change.type = "remove" -> Filter(nds, LAMBDA node : node.id # change.id)
    [] change.type = "position" ->
         Map(nds, LAMBDA node : IF node.id = change.id
                                  THEN Spread(node, [position |-> change.position])
                                  ELSE node)
    [] OTHER -> nds

\* the changes applied in order
RECURSIVE applyNodeChanges(_, _)
applyNodeChanges(changes, nds) ==
  IF changes = <<>> THEN nds
  ELSE applyNodeChanges(Tail(changes), applyNodeChange(Head(changes), nds))

RECURSIVE applyEdgeChanges(_, _)
applyEdgeChanges(changes, eds) ==
  IF changes = <<>> THEN eds
  ELSE applyEdgeChanges(Tail(changes),
         IF Head(changes).type = "remove"
           THEN Filter(eds, LAMBDA edge : edge.id # Head(changes).id)
           ELSE eds)

\* a generated edge id that no edge of the collection has
EdgeIds(eds) == {eds[i].id : i \in 1..Len(eds)}
NewEdgeId(eds) ==
  LET k == CHOOSE n \in 1..(Len(eds) + 1) :
             /\ ("edge-" \o NumText(n)) \notin EdgeIds(eds)
             /\ \A m \in 1..(n - 1) : ("edge-" \o NumText(m)) \in EdgeIds(eds)
  IN "edge-" \o NumText(k)

\* the connection appended as a new edge
addEdge(connection, eds) ==
  Append(eds, [id |-> NewEdgeId(eds), source |-> connection.source,
               target |-> connection.target])

----------------------------------------------------------------------------
(* Store operations: useFlowStore.ts *)

\* an onNodesChange that refreshes the selection from the changed nodes
onNodesChangeRefreshing(changes) ==
  LET changed == applyNodeChanges(changes, nodes)
      same == {i \in 1..Len(changed) :
                 selectedNode # null /\ changed[i].id = selectedNode.id}
  IN Run([op |-> "onNodesChange", changes |-> changes],
         changed, edges,
         IF same = {} THEN selectedNode ELSE changed[CHOOSE i \in same : TRUE],
         1, Returned)

onNodesChange(changes) ==
  Run([op |-> "onNodesChange", changes |-> changes],
      applyNodeChanges(changes, nodes), edges, selectedNode, 1, Returned)

onEdgesChange(changes) ==
  Run([op |-> "onEdgesChange", changes |-> changes],
      nodes, applyEdgeChanges(changes, edges), selectedNode, 1, Returned)

\* an onConnect that skips a connection the edges already have
onConnectOnce(connection) ==
  Run([op |-> "onConnect", connection |-> connection],
      nodes,
      IF \E i \in 1..Len(edges) : /\ edges[i].source = connection.source
                                  /\ edges[i].target = connection.target
        THEN edges ELSE addEdge(connection, edges),
      selectedNode, 1, Returned)

onConnect(connection) ==
  Run([op |-> "onConnect", connection |-> connection],
      nodes, addEdge(connection, edges), selectedNode, 1, Returned)

onNodeClick(node) ==
  Run([op |-> "onNodeClick", node |-> node], nodes, edges, node, 0, Returned)

\* `node-${Date.now()}`
NewNodeId == "node-" \o NumText(now)

newNode(position) ==
  [id |-> NewNodeId,
   position |-> position,
   data |-> [label |-> "Node " \o NumText(Len(nodes) + 1), description |-> "New node"],
   type |-> "default"]

\* [...get().nodes, newNode] throws when nodes is not iterable
addNode(position) ==
  IF IsArray(nodes)
    THEN Run([op |-> "addNode", position |-> position],
             Append(nodes, newNode(position)), edges, selectedNode, 1, Returned)
    ELSE Throw([op |-> "addNode", position |-> position])

\* an updateNode that replaces the data of the node instead of merging into it
updateNodeReplacingData(nodeId, data) ==
  Run([op |-> "updateNode", nodeId |-> nodeId, data |-> data],
      Map(nodes, LAMBDA node : IF node.id = nodeId
                                 THEN Spread(node, [data |-> data])
                                 ELSE node),
      edges,
      IF selectedNode # null /\ selectedNode.id = nodeId
        THEN Spread(selectedNode, [data |-> Spread(selectedNode.data, data)])
        ELSE selectedNode,
      1, Returned)

\* the two set() calls of updateNode, one after the other: the first shows the
\* subscribers the merged nodes with the selection not yet refreshed.
\* get().nodes.map throws when nodes has no map
updateNode(nodeId, data) ==
  IF IsArray(nodes)
    THEN LET merged == Map(nodes, LAMBDA node :
                             IF node.id = nodeId
                               THEN Spread(node, [data |-> Spread(node.data, data)])
                               ELSE node)
             refreshed == Spread(selectedNode,
                                 [data |-> Spread(selectedNode.data, data)])
         IN IF selectedNode # null /\ selectedNode.id = nodeId
              THEN Step([op |-> "updateNode", nodeId |-> nodeId, data |-> data],
                        merged, edges, refreshed, 1, Returned,
                        <<Store(merged, edges, selectedNode),
                          Store(merged, edges, refreshed)>>)
              ELSE Run([op |-> "updateNode", nodeId |-> nodeId, data |-> data],
                       merged, edges, selectedNode, 1, Returned)
    ELSE Throw([op |-> "updateNode", nodeId |-> nodeId, data |-> data])

\* a deleteNode that filters the edges by their source only
deleteNodeBySource(nodeId) ==
  Run([op |-> "deleteNode", nodeId |-> nodeId],
      Filter(nodes, LAMBDA node : node.id # nodeId),
      Filter(edges, LAMBDA edge : edge.source # nodeId),
      IF selectedNode # null /\ selectedNode.id = nodeId THEN null ELSE selectedNode,
      1, Returned)

\* a deleteNode that clears the selection only when it found the node to remove
deleteNodeIfPresent(nodeId) ==
  Run([op |-> "deleteNode", nodeId |-> nodeId],
      Filter(nodes, LAMBDA node : node.id # nodeId),
      Filter(edges, LAMBDA edge : edge.source # nodeId /\ edge.target # nodeId),
      IF selectedNode # null /\ selectedNode.id = nodeId
           /\ \E i \in 1..Len(nodes) : nodes[i].id = nodeId
        THEN null ELSE selectedNode,
      1, Returned)

\* a deleteNode that leaves the edges of the node
deleteNodeKeepingEdges(nodeId) ==
  Run([op |-> "deleteNode", nodeId |-> nodeId],
      Filter(nodes, LAMBDA node : node.id # nodeId),
      edges,
      IF selectedNode # null /\ selectedNode.id = nodeId THEN null ELSE selectedNode,
      1, Returned)

\* get().nodes.filter and get().edges.filter throw when either has no filter
deleteNode(nodeId) ==
  IF IsArray(nodes) /\ IsArray(edges)
    THEN Run([op |-> "deleteNode", nodeId |-> nodeId],
             Filter(nodes, LAMBDA node : node.id # nodeId),
             Filter(edges, LAMBDA edge : edge.source # nodeId /\ edge.target # nodeId),
             IF selectedNode # null /\ selectedNode.id = nodeId
               THEN null ELSE selectedNode,
             1, Returned)
    ELSE Throw([op |-> "deleteNode", nodeId |-> nodeId])

\* a setSelectedNode that selects only a node it finds in the collection
setSelectedNodeChecked(node) ==
  Run([op |-> "setSelectedNode", node |-> node], nodes, edges,
      IF \E i \in 1..Len(nodes) : nodes[i] = node THEN node ELSE null,
      0, Returned)

setSelectedNode(node) ==
  Run([op |-> "setSelectedNode", node |-> node], nodes, edges, node, 0, Returned)

\* !node.hidden, where a node without the key reads undefined
NotHidden(node) == IF Has(node, "hidden") THEN ~node.hidden ELSE TRUE

\* a toggleNodeVisibility that schedules no write
toggleNodeVisibilityUnsaved(nodeId) ==
  Run([op |-> "toggleNodeVisibility", nodeId |-> nodeId],
      Map(nodes, LAMBDA node : IF node.id = nodeId
                                 THEN Spread(node, [hidden |-> NotHidden(node)])
                                 ELSE node),
      edges, selectedNode, 0, Returned)

\* get().nodes.map throws when nodes has no map
toggleNodeVisibility(nodeId) ==
  IF IsArray(nodes)
    THEN Run([op |-> "toggleNodeVisibility", nodeId |-> nodeId],
             Map(nodes, LAMBDA node : IF node.id = nodeId
                                        THEN Spread(node, [hidden |-> NotHidden(node)])
                                        ELSE node),
             edges, selectedNode, 1, Returned)
    ELSE Throw([op |-> "toggleNodeVisibility", nodeId |-> nodeId])

\* a clearFlow that leaves the selection
clearFlowKeepingSelection ==
  Run([op |-> "clearFlow"], <<>>, <<>>, selectedNode, 1, Returned)

clearFlow ==
  Run([op |-> "clearFlow"], <<>>, <<>>, null, 1, Returned)

\* a Clear All that does not wait for the answer to its question
handleClearUnasked(confirmed) ==
  Run([op |-> "handleClear", confirmed |-> confirmed], <<>>, <<>>, null, 1, Returned)

\* Toolbar.handleClear: clearFlow() runs when confirm(...) returns true
handleClear(confirmed) ==
  IF confirmed
    THEN Run([op |-> "handleClear", confirmed |-> TRUE], <<>>, <<>>, null, 1, Returned)
    ELSE Step([op |-> "handleClear", confirmed |-> FALSE],
              nodes, edges, selectedNode, 0, Returned, <<>>)

\* Math.ceil(Math.sqrt(count))
CeilSqrt(count) == CHOOSE g \in 0..count : g * g >= count /\ (g = 0 \/ (g - 1) * (g - 1) < count)

Spacing == 200

\* a bulk node whose id leaves the loop index out
bulkNodeWithoutIndex(i, count, jitter) ==
  [id |-> "bulk-node-" \o NumText(now),
   position |-> [x |-> (i % CeilSqrt(count)) * Spacing + jitter,
                 y |-> (i \div CeilSqrt(count)) * Spacing + jitter],
   data |-> [label |-> "Node " \o NumText(i + 1),
             description |-> "Bulk generated node " \o NumText(i + 1)],
   type |-> "default"]

\* the node the loop of generateBulkNodes pushes at index i (from 0); jitter stands
\* for Math.random() * 50
bulkNode(i, count, jitter) ==
  [id |-> "bulk-node-" \o NumText(now) \o "-" \o NumText(i),
   position |-> [x |-> (i % CeilSqrt(count)) * Spacing + jitter,
                 y |-> (i \div CeilSqrt(count)) * Spacing + jitter],
   data |-> [label |-> "Node " \o NumText(i + 1),
             description |-> "Bulk generated node " \o NumText(i + 1)],
   type |-> "default"]

\* [...get().nodes, ...newNodes] throws when nodes is not iterable
generateBulkNodes(count, jitter) ==
  IF IsArray(nodes)
    THEN Run([op |-> "generateBulkNodes", count |-> count],
             nodes \o [i \in 1..count |-> bulkNode(i - 1, count, jitter)],
             edges, selectedNode, 1, Returned)
    ELSE Throw([op |-> "generateBulkNodes", count |-> count])

\* a save that serialises the nodes and no edges
StoredNodesOnly(fits) ==
  IF fits THEN JSONstringify([nodes |-> nodes, edges |-> <<>>]) ELSE storage

\* the body of saveToLocalStorage: fits is whether localStorage.setItem accepts
\* the text; when it throws (quota), the catch logs and the record stays
Stored(fits) ==
  IF fits THEN JSONstringify([nodes |-> nodes, edges |-> edges]) ELSE storage

\* a save that schedules another try when the write throws
saveToLocalStorageRetrying(fits) ==
  /\ events < MaxEvents
  /\ storage' = Stored(fits)
  /\ savedFrom' = IF fits THEN [nodes |-> nodes, edges |-> edges] ELSE savedFrom
  /\ timers' = IF fits THEN timers ELSE timers + 1
  /\ out' = Returned
  /\ lastOp' = [op |-> "saveToLocalStorage", fits |-> fits]
  /\ pre' = Snapshot
  /\ seen' = <<>>
  /\ events' = events + 1
  /\ UNCHANGED <<nodes, edges, selectedNode, now, file, exportedFrom>>

saveToLocalStorage(fits) ==
  /\ events < MaxEvents
  /\ storage' = Stored(fits)
  /\ savedFrom' = IF fits THEN [nodes |-> nodes, edges |-> edges] ELSE savedFrom
  /\ out' = Returned
  /\ lastOp' = [op |-> "saveToLocalStorage", fits |-> fits]
  /\ pre' = Snapshot
  /\ seen' = <<>>
  /\ events' = events + 1
  /\ UNCHANGED <<nodes, edges, selectedNode, timers, now, file, exportedFrom>>

\* a pending setTimeout callback runs: () => get().saveToLocalStorage()
TimerFires(fits) ==
  /\ events < MaxEvents
  /\ timers > 0
  /\ timers' = timers - 1
  /\ storage' = Stored(fits)
  /\ savedFrom' = IF fits THEN [nodes |-> nodes, edges |-> edges] ELSE savedFrom
  /\ out' = Returned
  /\ lastOp' = [op |-> "timer", fits |-> fits]
  /\ pre' = Snapshot
  /\ seen' = <<>>
  /\ events' = events + 1
  /\ UNCHANGED <<nodes, edges, selectedNode, now, file, exportedFrom>>

\* set() is not reached
Nothing == [nothing |-> TRUE]

\* what loadFromLocalStorage sets, or Nothing when it sets nothing: nothing stored,
\* a SyntaxError of JSON.parse, or a TypeError destructuring null, both caught
\* The text under the storage key is replaced from outside the store: localStorage
\* is shared with the rest of the page and with the user
StorageEdited(text) ==
  /\ events < MaxEvents
  /\ storage' = text
  /\ out' = Returned
  /\ lastOp' = [op |-> "storageEdited", text |-> text]
  /\ pre' = Snapshot
  /\ seen' = <<>>
  /\ events' = events + 1
  /\ UNCHANGED <<nodes, edges, selectedNode, timers, now, file, savedFrom, exportedFrom>>

\* a load that sets the selection to null whether or not the record parses
LoadedClearingFirst ==
  IF storage = <<>> THEN Nothing
  ELSE LET r == JSONparse(storage) IN
    IF ~r.ok \/ r.v.kind = "null"
      THEN [nodes |-> nodes, edges |-> edges, selectedNode |-> null]
      ELSE [nodes |-> Held(Get(r.v, "nodes")), edges |-> Held(Get(r.v, "edges")),
            selectedNode |-> null]

\* a load that takes the nodes of the record and leaves the edges of the store
LoadedNodesOnly ==
  IF storage = <<>> THEN Nothing
  ELSE LET r == JSONparse(storage) IN
    IF ~r.ok \/ r.v.kind = "null" THEN Nothing
    ELSE [nodes |-> Value(Get(r.v, "nodes")), edges |-> edges, selectedNode |-> null]

Loaded ==
  IF storage = <<>> THEN Nothing
  ELSE LET r == JSONparse(storage) IN
    IF ~r.ok \/ r.v.kind = "null" THEN Nothing
    ELSE [nodes |-> Held(Get(r.v, "nodes")), edges |-> Held(Get(r.v, "edges")),
          selectedNode |-> null]

\* a load that drops the writes still pending
loadFromLocalStorageCancelling ==
  LET got == Loaded IN
    IF got = Nothing
      THEN Step([op |-> "loadFromLocalStorage"], nodes, edges, selectedNode, 0,
                Returned, <<>>)
      ELSE Run([op |-> "loadFromLocalStorage"], got.nodes, got.edges, got.selectedNode,
               0 - timers, Returned)

\* a load that sets the selection to null before it looks for the record
loadFromLocalStorageClearing ==
  LET got == Loaded IN
    IF got = Nothing
      THEN Run([op |-> "loadFromLocalStorage"], nodes, edges, null, 0, Returned)
      ELSE Run([op |-> "loadFromLocalStorage"], got.nodes, got.edges, got.selectedNode,
               0, Returned)

loadFromLocalStorage ==
  LET got == Loaded IN
    IF got = Nothing
      THEN Step([op |-> "loadFromLocalStorage"], nodes, edges, selectedNode, 0,
                Returned, <<>>)
      ELSE Run([op |-> "loadFromLocalStorage"], got.nodes, got.edges, got.selectedNode,
               0, Returned)

\* a refresh that does not look at the record
RefreshToDemo ==
  /\ events < MaxEvents
  /\ nodes' = initialNodes
  /\ edges' = initialEdges
  /\ selectedNode' = null
  /\ timers' = 0
  /\ out' = Returned
  /\ lastOp' = [op |-> "refresh"]
  /\ pre' = Snapshot
  /\ seen' = <<>>
  /\ events' = events + 1
  /\ UNCHANGED <<storage, now, file, savedFrom, exportedFrom>>

\* The page is refreshed: the module is evaluated again, which creates the store in
\* its initial state, the callbacks pending in the old page are gone, and the effect
\* of App runs loadFromLocalStorage() on mount
Refresh ==
  LET got == Loaded IN
    /\ events < MaxEvents
    /\ nodes' = IF got = Nothing THEN initialNodes ELSE got.nodes
    /\ edges' = IF got = Nothing THEN initialEdges ELSE got.edges
    /\ selectedNode' = null
    /\ timers' = 0
    /\ out' = Returned
    /\ lastOp' = [op |-> "refresh"]
    /\ pre' = Snapshot
    /\ seen' = IF got = Nothing THEN <<>> ELSE <<Store(got.nodes, got.edges, null)>>
    /\ events' = events + 1
    /\ UNCHANGED <<storage, now, file, savedFrom, exportedFrom>>

\* new Date().toISOString()
ISOString(t) == "1970-01-01T00:00:00.00" \o NumText(t) \o "Z"

\* an export without the version tag
exportToJSONWithoutVersion ==
  JSONstringify([nodes |-> nodes, edges |-> edges, exportedAt |-> ISOString(now)])

exportToJSON ==
  JSONstringify([nodes |-> nodes, edges |-> edges, version |-> "1.0",
                 exportedAt |-> ISOString(now)])

\* Toolbar.handleExport: the returned text is downloaded as a file
handleExport ==
  /\ events < MaxEvents
  /\ file' = exportToJSON
  /\ exportedFrom' = [nodes |-> nodes, edges |-> edges]
  /\ out' = Returned
  /\ lastOp' = [op |-> "exportToJSON"]
  /\ pre' = Snapshot
  /\ seen' = <<>>
  /\ events' = events + 1
  /\ UNCHANGED <<nodes, edges, selectedNode, storage, timers, now, savedFrom>>

\* an import that reads a missing edges field as no edges: data.edges || []
ImportedLax(json) ==
  LET r == JSONparse(json) IN
    IF ~r.ok \/ r.v.kind = "null" THEN Nothing
    ELSE IF Truthy(Get(r.v, "nodes"))
      THEN [nodes |-> Value(Get(r.v, "nodes")),
            edges |-> IF Truthy(Get(r.v, "edges")) THEN Value(Get(r.v, "edges")) ELSE <<>>,
            selectedNode |-> null]
      ELSE Nothing

\* an import that adds the nodes and edges of the document to those of the store
ImportedAppending(json) ==
  LET r == JSONparse(json) IN
    IF ~r.ok \/ r.v.kind = "null" THEN Nothing
    ELSE IF Truthy(Get(r.v, "nodes")) /\ Truthy(Get(r.v, "edges"))
      THEN [nodes |-> nodes \o Value(Get(r.v, "nodes")),
            edges |-> edges \o Value(Get(r.v, "edges")),
            selectedNode |-> null]
      ELSE Nothing

\* what importFromJSON sets, or Nothing when the try block throws: a SyntaxError,
\* a TypeError reading a key of null, or the Error('Invalid JSON format')
Imported(json) ==
  LET r == JSONparse(json) IN
    IF ~r.ok \/ r.v.kind = "null" THEN Nothing
    ELSE IF Truthy(Get(r.v, "nodes")) /\ Truthy(Get(r.v, "edges"))
      THEN [nodes |-> Held(Get(r.v, "nodes")), edges |-> Held(Get(r.v, "edges")),
            selectedNode |-> null]
      ELSE Nothing

Alerted == [alert |-> TRUE, threw |-> FALSE]

importFromJSON(json) ==
  LET got == Imported(json) IN
    IF got = Nothing
      THEN Step([op |-> "importFromJSON", json |-> json],
                nodes, edges, selectedNode, 0, Alerted, <<>>)
      ELSE Run([op |-> "importFromJSON", json |-> json],
               got.nodes, got.edges, got.selectedNode, 1, Returned)

\* the wall clock advances
Tick ==
  /\ events < MaxEvents
  /\ now < MaxClock
  /\ now' = now + 1
  /\ events' = events + 1
  /\ UNCHANGED <<nodes, edges, selectedNode, storage, timers, file, out, lastOp, pre,
                 savedFrom, exportedFrom, seen>>

----------------------------------------------------------------------------
(* The inputs the operations are called with *)

NodeIds(nds) == {nds[i].id : i \in 1..Len(nds)}

\* ids passed to updateNode, deleteNode and toggleNodeVisibility and named by the
\* library's node changes: "1" and the id of the selection (the node the editor
\* has open, the node the canvas has selected)
IdArgs == {"1"} \cup (IF selectedNode = null THEN {} ELSE {selectedNode.id})

\* positions passed to addNode, or drawn by its default Math.random() * 500
Positions == {[x |-> 100, y |-> 200], [x |-> 0, y |-> 0]}

\* where a drag leaves a node
DragTo == [x |-> 50, y |-> 50]

NodeChanges ==
  {<<[type |-> "remove", id |-> id]>> : id \in IdArgs}
  \cup {<<[type |-> "position", id |-> id, position |-> DragTo]>> : id \in IdArgs}

EdgeChanges == {<<[type |-> "remove", id |-> id]>> : id \in EdgeIds(edges)}

\* connections drawn on the canvas: from the first node to the last, and from the
\* last node to itself
Connections ==
  IF nodes = <<>> THEN {}
  ELSE {[source |-> nodes[1].id, target |-> nodes[Len(nodes)].id],
        [source |-> nodes[Len(nodes)].id, target |-> nodes[Len(nodes)].id]}

\* nodes passed to setSelectedNode: null (NodeEditor.handleClose), the first node,
\* and a node object taken from the store at its creation, whatever the store holds
\* by now
Selectable == {null, initialNodes[1]} \cup (IF nodes = <<>> THEN {} ELSE {nodes[1]})

\* the edits NodeEditor and the tests pass to updateNode
PartialData ==
  {[label |-> "Updated Label"], [description |-> "New description", color |-> "red"]}

Jitter == {25}

\* texts given to importFromJSON beside the exported file: not JSON, a document
\* without edges, a document whose edges are null, and the document of the store's
\* import test
InvalidJson == <<Lit("invalid"), Lit("json")>>
NoEdgesJson == JSONstringify([nodes |-> <<>>, version |-> "1.0"])
\* { "nodes": [], "edges": null }
NullEdgesJson ==
  <<P("{"), StrTok("nodes"), P("["), P("]"), StrTok("edges"), Lit("null"), P("}")>>
mockData ==
  [nodes |-> << [id |-> "test-1", position |-> [x |-> 0, y |-> 0],
                 data |-> [label |-> "Test Node"], type |-> "default"] >>,
   edges |-> << [id |-> "e1", source |-> "test-1", target |-> "test-2"] >>,
   version |-> "1.0",
   exportedAt |-> ISOString(0)]
MockJson == JSONstringify(mockData)
ImportTexts ==
  {InvalidJson, NoEdgesJson, NullEdgesJson, MockJson}
  \cup (IF file = <<>> THEN {} ELSE {file})

Next ==
  \/ \E changes \in NodeChanges : onNodesChange(changes)
  \/ \E changes \in EdgeChanges : onEdgesChange(changes)
  \/ \E connection \in Connections : onConnect(connection)
  \/ \E i \in 1..Len(nodes) : onNodeClick(nodes[i])
  \/ \E position \in Positions : addNode(position)
  \/ \E nodeId \in IdArgs, data \in PartialData : updateNode(nodeId, data)
  \/ \E nodeId \in IdArgs : deleteNode(nodeId)
  \/ \E node \in Selectable : setSelectedNode(node)
  \/ \E nodeId \in IdArgs : toggleNodeVisibility(nodeId)
  \/ clearFlow
  \/ \E confirmed \in BOOLEAN : handleClear(confirmed)
  \/ \E count \in 1..MaxBulk, jitter \in Jitter : generateBulkNodes(count, jitter)
  \/ \E fits \in BOOLEAN : saveToLocalStorage(fits)
  \/ \E fits \in BOOLEAN : TimerFires(fits)
  \/ loadFromLocalStorage
  \/ Refresh
  \/ handleExport
  \/ \E json \in ImportTexts : importFromJSON(json)
  \/ Tick

Spec == Init /\ [][Next]_vars

----------------------------------------------------------------------------
(* The store given documents and records that it did not write itself *)

\* { "nodes": 1, "edges": 1 }
NumberJson ==
  <<P("{"), StrTok("nodes"), NumTok(1), StrTok("edges"), NumTok(1), P("}")>>

\* a record cut short: { "nodes": [
TruncatedRecord == <<P("{"), StrTok("nodes"), P("[")>>

\* the text null
NullRecord == <<Lit("null")>>

ForeignDocuments == {NumberJson, MockJson, InvalidJson}
ForeignRecords == {TruncatedRecord, NullRecord, NumberJson}

NextForeign ==
  \/ \E json \in ForeignDocuments : importFromJSON(json)
  \/ \E text \in ForeignRecords : StorageEdited(text)
  \/ loadFromLocalStorage
  \/ setSelectedNode(initialNodes[1])
  \/ \E position \in Positions : addNode(position)
  \/ \E nodeId \in IdArgs, data \in PartialData : updateNode(nodeId, data)
  \/ \E nodeId \in IdArgs : deleteNode(nodeId)
  \/ \E nodeId \in IdArgs : toggleNodeVisibility(nodeId)
  \/ \E count \in 1..MaxBulk, jitter \in Jitter : generateBulkNodes(count, jitter)
  \/ clearFlow
  \/ Tick

SpecForeign == Init /\ [][NextForeign]_vars

----------------------------------------------------------------------------
(* Properties of the store operations.  lastOp names the operation that led to *)
(* the current state and pre holds the state it was called in.                 *)

\* after is before without the elements Drop holds of: the others are all kept,
\* unchanged and in the same relative order
IsRemainder(after, before, Drop(_)) ==
  LET keep == {i \in 1..Len(before) : ~Drop(before[i])} IN
    /\ Len(after) = Cardinality(keep)
    /\ \A i \in keep : after[Cardinality({j \in keep : j <= i})] = before[i]

Deleted == lastOp.op = "deleteNode"

\* C1: deleteNode(id) removes exactly the nodes whose id is id and exactly the edges
\* whose source or target is id; every other node and edge is kept, unchanged and
\* in the same relative order.  When no node has the id the nodes are unchanged.
C1_DeleteNodeRemovesExactly ==
  Deleted =>
    /\ IsRemainder(nodes, pre.nodes, LAMBDA node : node.id = lastOp.nodeId)
    /\ IsRemainder(edges, pre.edges,
                   LAMBDA edge : edge.source = lastOp.nodeId \/ edge.target = lastOp.nodeId)
    /\ (lastOp.nodeId \notin NodeIds(pre.nodes) => nodes = pre.nodes)

\* a deleteNode that removed a node and an edge ending at it, and kept another node
C1_Witness ==
  /\ Deleted
  /\ lastOp.nodeId \in NodeIds(pre.nodes)
  /\ \E i \in 1..Len(pre.edges) :
       pre.edges[i].target = lastOp.nodeId /\ pre.edges[i].source # lastOp.nodeId
  /\ Len(nodes) >= 1
  /\ Len(nodes) < Len(pre.nodes)
  /\ Len(edges) < Len(pre.edges)

\* C2: deleteNode(id) sets the selection to null when the selection's id is id and
\* otherwise leaves the selection as it was, whether or not a node has the id.
C2_DeleteNodeSelection ==
  Deleted =>
    IF pre.selectedNode # null /\ pre.selectedNode.id = lastOp.nodeId
      THEN selectedNode = null
      ELSE selectedNode = pre.selectedNode

\* a deleteNode of the selection's id when no node has that id any more
C2_Witness ==
  /\ Deleted
  /\ pre.selectedNode # null
  /\ pre.selectedNode.id = lastOp.nodeId
  /\ lastOp.nodeId \notin NodeIds(pre.nodes)
  /\ selectedNode = null

Added == lastOp.op = "addNode"

\* the ids of a collection are pairwise distinct
UniqueIds(seq) == \A i, j \in 1..Len(seq) : seq[i].id = seq[j].id => i = j

\* C3: every addNode call makes the node collection one longer, the new node last
\* with the position passed, and the ids of the collection stay unique, also when
\* two calls happen within one clock tick.
C3_AddNodeAppendsUnique ==
  Added =>
    /\ Len(nodes) = Len(pre.nodes) + 1
    /\ SubSeq(nodes, 1, Len(pre.nodes)) = pre.nodes
    /\ nodes[Len(nodes)].position = lastOp.position
    /\ (UniqueIds(pre.nodes) => UniqueIds(nodes))

\* C4: clearFlow always yields no nodes, no edges and a null selection.
C4_ClearFlowEmpties ==
  lastOp.op = "clearFlow" => nodes = <<>> /\ edges = <<>> /\ selectedNode = null

\* a clearFlow called with nodes, edges and a selection
C4_Witness ==
  /\ lastOp.op = "clearFlow"
  /\ pre.nodes # <<>>
  /\ pre.edges # <<>>
  /\ pre.selectedNode # null

ImportedFile == lastOp.op = "importFromJSON" /\ file # <<>> /\ lastOp.json = file

\* C5: importFromJSON of the text exportToJSON returned, from any later state,
\* leaves the store with the nodes and edges it had at the export, in their order.
C5_ExportImportRoundTrip ==
  ImportedFile => nodes = exportedFrom.nodes /\ edges = exportedFrom.edges

\* an import of the exported file into a store that had changed since the export
C5_Witness ==
  /\ ImportedFile
  /\ pre.nodes # exportedFrom.nodes
  /\ pre.edges # exportedFrom.edges
  /\ nodes # <<>>
  /\ edges # <<>>

LoadedOp == lastOp.op = "loadFromLocalStorage"

\* C6, as claimed: a loadFromLocalStorage() right after a saveToLocalStorage()
\* leaves nodes and edges equal to what they were at the save.
C6_LoadAfterAnySave ==
  [][(lastOp.op = "saveToLocalStorage" /\ lastOp'.op = "loadFromLocalStorage")
       => (nodes' = nodes /\ edges' = edges)]_vars

\* C6, amended: a load when a record is stored restores the nodes and edges of the
\* last save whose storage write succeeded, and sets the selection to null.
C6_LoadRestoresLastStoredSave ==
  (LoadedOp /\ pre.storage # <<>>) =>
    /\ nodes = savedFrom.nodes
    /\ edges = savedFrom.edges
    /\ selectedNode = null

\* a load that brought back saved nodes and edges the store no longer had
C6_Witness ==
  /\ LoadedOp
  /\ pre.storage # <<>>
  /\ pre.nodes # nodes
  /\ pre.edges # edges
  /\ nodes # <<>>
  /\ edges # <<>>

\* the operation left the store, the record and the pending timers as they were
NothingChanged ==
  /\ nodes = pre.nodes
  /\ edges = pre.edges
  /\ selectedNode = pre.selectedNode
  /\ storage = pre.storage
  /\ timers = pre.timers

\* C7: loadFromLocalStorage() with nothing stored changes nothing: nodes, edges and
\* selection stay, nothing is written or scheduled.
C7_LoadWithoutRecordIsNoOp ==
  (LoadedOp /\ pre.storage = <<>>) => NothingChanged

\* a load with nothing stored, called with a selection it could have cleared
C7_Witness ==
  /\ LoadedOp
  /\ pre.storage = <<>>
  /\ pre.selectedNode # null
  /\ pre.nodes # initialNodes

\* the text does not parse, or its value has no nodes field or no edges field
NotAWorkflow(json) ==
  LET r == JSONparse(json) IN
    \/ ~r.ok
    \/ r.v.kind # "object"
    \/ ~Has(r.v.val, "nodes")
    \/ ~Has(r.v.val, "edges")

\* C8: importFromJSON of a text that does not parse, or lacks nodes or edges, leaves
\* nodes, edges and selection unchanged, schedules no write, raises the alert and
\* lets no exception escape.
C8_BadImportChangesNothing ==
  (lastOp.op = "importFromJSON" /\ NotAWorkflow(lastOp.json)) =>
    /\ NothingChanged
    /\ out.alert
    /\ ~out.threw

\* an import of a document without edges, called with a selection and a pending timer
C8_Witness ==
  /\ lastOp.op = "importFromJSON"
  /\ lastOp.json = NoEdgesJson
  /\ pre.selectedNode # null
  /\ pre.timers > 0
  /\ out.alert

Updated == lastOp.op = "updateNode"

\* C9: updateNode on the selection's id updates node and selection alike, so that
\* afterwards the selection's data equals the data of the node with that id;
\* updateNode on another id leaves the selection untouched.
C9_UpdateKeepsSelectionInStep ==
  Updated =>
    IF pre.selectedNode # null /\ pre.selectedNode.id = lastOp.nodeId
      THEN \A i \in 1..Len(nodes) :
             nodes[i].id = lastOp.nodeId => selectedNode.data = nodes[i].data
      ELSE selectedNode = pre.selectedNode

\* b is a with its data shallow-merged with the partial data: keys of the partial
\* data overwrite, every other key of the data and of the node is as it was
IsMerged(b, a, partial) ==
  /\ DOMAIN b = DOMAIN a
  /\ \A k \in DOMAIN a \ {"data"} : b[k] = a[k]
  /\ DOMAIN b.data = DOMAIN a.data \cup DOMAIN partial
  /\ \A k \in DOMAIN partial : b.data[k] = partial[k]
  /\ \A k \in DOMAIN a.data \ DOMAIN partial : b.data[k] = a.data[k]

\* C10: updateNode(id, partialData) shallow-merges partialData into the data of the
\* node with that id and changes nothing else: its id and position, the other
\* nodes, the order and length of the nodes and the edges stay.
C10_UpdateNodeMergesData ==
  Updated =>
    /\ Len(nodes) = Len(pre.nodes)
    /\ \A i \in 1..Len(pre.nodes) :
         IF pre.nodes[i].id = lastOp.nodeId
           THEN IsMerged(nodes[i], pre.nodes[i], lastOp.data)
           ELSE nodes[i] = pre.nodes[i]
    /\ edges = pre.edges

\* an updateNode that overwrote one key of a node's data, kept another and left
\* another node alone
C10_Witness ==
  /\ Updated
  /\ \E i \in 1..Len(pre.nodes) :
       /\ pre.nodes[i].id = lastOp.nodeId
       /\ \E k \in DOMAIN lastOp.data :
            k \in DOMAIN pre.nodes[i].data /\ pre.nodes[i].data[k] # lastOp.data[k]
       /\ DOMAIN pre.nodes[i].data \ DOMAIN lastOp.data # {}
       /\ nodes[i] # pre.nodes[i]
  /\ \E i \in 1..Len(pre.nodes) : pre.nodes[i].id # lastOp.nodeId

\* C11: generateBulkNodes(N), N >= 1, appends exactly N nodes after the existing ones,
\* which stay as they are and in their order; edges and selection are unchanged and
\* the N new ids are pairwise distinct.
C11_BulkAppendsDistinct ==
  lastOp.op = "generateBulkNodes" =>
    /\ Len(nodes) = Len(pre.nodes) + lastOp.count
    /\ SubSeq(nodes, 1, Len(pre.nodes)) = pre.nodes
    /\ edges = pre.edges
    /\ selectedNode = pre.selectedNode
    /\ UniqueIds(SubSeq(nodes, Len(pre.nodes) + 1, Len(nodes)))

\* a generateBulkNodes of two nodes into a store with nodes, edges and a selection
C11_Witness ==
  /\ lastOp.op = "generateBulkNodes"
  /\ lastOp.count = 2
  /\ pre.nodes # <<>>
  /\ pre.edges # <<>>
  /\ pre.selectedNode # null

\* the operations that set nodes or edges
MutatingOps ==
  {"onNodesChange", "onEdgesChange", "onConnect", "addNode", "updateNode", "deleteNode",
   "toggleNodeVisibility", "clearFlow", "generateBulkNodes", "importFromJSON"}

\* the last operation was a mutating one that succeeded
Mutated ==
  \/ lastOp.op \in MutatingOps /\ ~out.alert
  \/ lastOp.op = "handleClear" /\ lastOp.confirmed

\* C12: after a change through a mutating operation, a page refresh (store reset,
\* pending timers dropped, loadFromLocalStorage on mount) leaves the store with the
\* changed nodes and edges.
C12_RefreshKeepsChange ==
  [][(Mutated /\ lastOp'.op = "refresh") => (nodes' = nodes /\ edges' = edges)]_vars

\* the record in storage parses to the nodes and edges the store holds
StoredRecordIsCurrent ==
  /\ storage # <<>>
  /\ Loaded # Nothing
  /\ Loaded.nodes = nodes
  /\ Loaded.edges = edges

TimerFired == lastOp.op = "timer"

ImportedOp == lastOp.op = "importFromJSON"

\* the text parses to an object that has a nodes field and an edges field
HasBothFields(json) ==
  LET r == JSONparse(json) IN
    r.ok /\ r.v.kind = "object" /\ Has(r.v.val, "nodes") /\ Has(r.v.val, "edges")

\* the text parses to an object whose nodes and edges are both truthy
HasBothTruthy(json) ==
  LET r == JSONparse(json) IN
    r.ok /\ r.v.kind = "object" /\ Truthy(Get(r.v, "nodes")) /\ Truthy(Get(r.v, "edges"))

\* the import of the text replaced nodes and edges by those of the document, set
\* the selection to null and scheduled one write
ReplacedBy(json) ==
  LET r == JSONparse(json) IN
    /\ ~out.alert
    /\ ~out.threw
    /\ timers = pre.timers + 1
    /\ selectedNode = null
    /\ nodes = Value(Get(r.v, "nodes"))
    /\ edges = Value(Get(r.v, "edges"))

\* C14, as claimed: importFromJSON of a text whose value contains a nodes field and
\* an edges field replaces nodes and edges with them, sets the selection to null and
\* schedules one write.
C14_ImportWithBothFields ==
  (ImportedOp /\ HasBothFields(lastOp.json)) => ReplacedBy(lastOp.json)

\* C14, amended: importFromJSON of a text whose value has a truthy nodes field and a
\* truthy edges field (a list, also an empty one) replaces nodes and edges with them
\* verbatim, sets the selection to null and schedules one write; version and
\* exportedAt are ignored.
C14_ImportWithTruthyFields ==
  (ImportedOp /\ HasBothTruthy(lastOp.json)) =>
    /\ ReplacedBy(lastOp.json)
    /\ lastOp.json = MockJson => (nodes = mockData.nodes /\ edges = mockData.edges)

\* an import of the test's document into a store with other nodes and a selection
C14_Witness ==
  /\ ImportedOp
  /\ lastOp.json = MockJson
  /\ pre.selectedNode # null
  /\ pre.nodes # <<>>
  /\ nodes = mockData.nodes

\* C15: setSelectedNode and onNodeClick replace the selection with the value given,
\* whether or not it is a node of the collection; nodes and edges are unchanged and
\* no write is made or scheduled.
C15_SelectionIsTheGivenValue ==
  lastOp.op \in {"setSelectedNode", "onNodeClick"} =>
    /\ selectedNode = lastOp.node
    /\ nodes = pre.nodes
    /\ edges = pre.edges
    /\ storage = pre.storage
    /\ timers = pre.timers

\* a setSelectedNode of a node object that is not in the collection
C15_Witness ==
  /\ lastOp.op = "setSelectedNode"
  /\ lastOp.node # null
  /\ \A i \in 1..Len(pre.nodes) : pre.nodes[i] # lastOp.node
  /\ pre.nodes # <<>>
  /\ selectedNode = lastOp.node

Exported == lastOp.op = "exportToJSON"

\* C16: exportToJSON returns a document whose nodes and edges are those of the store,
\* whose version is "1.0" and which has an exportedAt timestamp; the store, the
\* record and the pending writes are unchanged.
C16_ExportIsTheStore ==
  Exported =>
    LET r == JSONparse(file) IN
      /\ r.ok
      /\ Value(Get(r.v, "nodes")) = nodes
      /\ Value(Get(r.v, "edges")) = edges
      /\ Get(r.v, "version") = [kind |-> "string", val |-> "1.0"]
      /\ Get(r.v, "exportedAt").kind = "string"
      /\ NothingChanged

\* an export of a store with nodes, edges, a selection and a pending write
C16_Witness ==
  /\ Exported
  /\ nodes # <<>>
  /\ nodes # initialNodes
  /\ edges # <<>>
  /\ selectedNode # null
  /\ timers > 0

\* C17: Clear All asks first: when the user confirms, clearFlow runs and the node
\* collection is empty; when the user cancels, nodes, edges and selection are
\* unchanged and no write is scheduled.
C17_ClearAllAsksFirst ==
  lastOp.op = "handleClear" =>
    IF lastOp.confirmed
      THEN nodes = <<>> /\ edges = <<>> /\ selectedNode = null
             /\ timers = pre.timers + 1
      ELSE NothingChanged

\* a cancelled Clear All in a store with nodes, edges and a selection
C17_Witness ==
  /\ lastOp.op = "handleClear"
  /\ ~lastOp.confirmed
  /\ nodes # <<>>
  /\ edges # <<>>
  /\ selectedNode # null

\* C18: in every reachable state the node ids are unique within the nodes and the
\* edge ids are unique within the edges.
C18_IdsUnique ==
  UniqueIds(nodes) /\ UniqueIds(edges)

\* C19: updateNode(id, partialData) with no node of that id leaves nodes, edges and
\* selection unchanged and still schedules a write, also when the selection is a
\* snapshot with that id whose node is gone.
C19_UpdateOfAbsentIdIsNoOp ==
  (Updated /\ lastOp.nodeId \notin NodeIds(pre.nodes)) =>
    /\ nodes = pre.nodes
    /\ edges = pre.edges
    /\ selectedNode = pre.selectedNode
    /\ timers = pre.timers + 1

\* C20: every mutating operation schedules exactly one deferred write and writes
\* nothing inline: the record is as before the operation, and it changes only when
\* a timer fires or saveToLocalStorage is called.
C20_MutationDefersItsWrite ==
  /\ Mutated => (storage = pre.storage /\ timers = pre.timers + 1)
  /\ storage # pre.storage => lastOp.op \in {"timer", "saveToLocalStorage"}

\* a toggleNodeVisibility that changed a node while an older record was stored
C20_Witness ==
  /\ lastOp.op = "toggleNodeVisibility"
  /\ pre.storage # <<>>
  /\ nodes # pre.nodes
  /\ savedFrom.nodes # nodes
  /\ storage = pre.storage

\* C21: store operations run to completion: every state a subscriber observes is the
\* state before or after a whole operation; updateNode on the selected id is never
\* seen with the nodes merged and the selection not yet refreshed.
C21_SubscribersSeeWholeOperations ==
  \A k \in 1..Len(seen) :
    \/ seen[k] = Store(pre.nodes, pre.edges, pre.selectedNode)
    \/ seen[k] = Store(nodes, edges, selectedNode)

\* the last event was a save, called directly or by a timer, whose write threw
SaveFailed == lastOp.op \in {"saveToLocalStorage", "timer"} /\ ~lastOp.fits

\* C22: a saveToLocalStorage() whose write fails lets no exception escape, leaves
\* nodes, edges and selection unchanged, leaves the stored record in place and is
\* not retried: no write is scheduled for it.
C22_FailedSaveIsSilent ==
  SaveFailed =>
    /\ ~out.threw
    /\ ~out.alert
    /\ nodes = pre.nodes
    /\ edges = pre.edges
    /\ selectedNode = pre.selectedNode
    /\ storage = pre.storage
    /\ timers = IF lastOp.op = "timer" THEN pre.timers - 1 ELSE pre.timers

\* a failed save of a changed store while an older record was stored
C22_Witness ==
  /\ SaveFailed
  /\ lastOp.op = "saveToLocalStorage"
  /\ pre.storage # <<>>
  /\ savedFrom.nodes # nodes
  /\ storage = pre.storage

\* the text under the storage key was not JSON when the load ran
Unparsable(text) == text # <<>> /\ ~JSONparse(text).ok

\* C23: loadFromLocalStorage() of a stored text that cannot be parsed leaves nodes,
\* edges and selection unchanged and lets no exception escape; a load changes the
\* selection only when it replaces nodes and edges by those of the record.
C23_UnparsableRecordIsIgnored ==
  /\ (LoadedOp /\ Unparsable(pre.storage)) =>
       (NothingChanged /\ ~out.threw /\ ~out.alert)
  /\ (LoadedOp /\ selectedNode # pre.selectedNode) =>
       LET r == JSONparse(pre.storage) IN
         /\ r.ok
         /\ selectedNode = null
         /\ nodes = Held(Get(r.v, "nodes"))
         /\ edges = Held(Get(r.v, "edges"))

\* a load of a truncated record, called with a selection and changed nodes
C23_Witness ==
  /\ LoadedOp
  /\ pre.storage = TruncatedRecord
  /\ pre.selectedNode # null
  /\ pre.nodes # initialNodes

\* C26: no store operation lets an exception reach its caller, also when an import
\* accepted a document whose nodes or edges is not a list and addNode,
\* generateBulkNodes, updateNode, deleteNode or toggleNodeVisibility runs afterwards.
C26_NoExceptionEscapes == ~out.threw

Connected == lastOp.op = "onConnect"

SelectionBlindOps ==
  {"onNodesChange", "toggleNodeVisibility", "addNode", "generateBulkNodes", "onConnect",
   "onEdgesChange"}

\* C25: onNodesChange, toggleNodeVisibility, addNode, generateBulkNodes, onConnect and
\* onEdgesChange never change the selection: after one of them changed the selected
\* node, the selection still holds the old values.
C25_SelectionIsDetached ==
  lastOp.op \in SelectionBlindOps => selectedNode = pre.selectedNode

\* an onNodesChange that moved the selected node and left the selection behind
C25_Witness ==
  /\ lastOp.op = "onNodesChange"
  /\ selectedNode # null
  /\ Len(nodes) = Len(pre.nodes)
  /\ \E i \in 1..Len(nodes) :
       /\ pre.nodes[i] = selectedNode
       /\ nodes[i].id = selectedNode.id
       /\ nodes[i].position # selectedNode.position

\* the step is an event other than a clock tick
OperationStep == events' # events /\ now' = now

\* C27: a loadFromLocalStorage between a mutating operation and its deferred write
\* replaces the store by the stored record and leaves the write pending; the write
\* then stores that same record again, so the mutation is in neither the store nor
\* storage.  Without such a load the deferred write leaves the mutation in the
\* store and, when the write succeeds, in the record.
C27_LoadBeforeDeferredWrite ==
  [][/\ (OperationStep /\ lastOp'.op = "loadFromLocalStorage" /\ storage # <<>>) =>
          /\ nodes' = savedFrom.nodes
          /\ edges' = savedFrom.edges
          /\ timers' = timers
          /\ storage' = storage
     /\ (LoadedOp /\ pre.storage # <<>> /\ lastOp'.op = "timer") =>
          /\ storage' = storage
          /\ nodes' = nodes
          /\ edges' = edges
     /\ (Mutated /\ lastOp'.op = "timer") =>
          /\ nodes' = nodes
          /\ edges' = edges
          /\ lastOp'.fits => storage' = JSONstringify([nodes |-> nodes', edges |-> edges'])
    ]_vars

\* a load that replaced a changed store by the stored record while a write was pending
C27_Witness ==
  /\ LoadedOp
  /\ pre.storage # <<>>
  /\ timers > 0
  /\ nodes # pre.nodes
  /\ nodes = savedFrom.nodes

\* C28: in every reachable state a non-null selection has the id of a node of the
\* node collection.
C28_SelectionIsANode ==
  selectedNode # null => selectedNode.id \in NodeIds(nodes)

\* every edge starts and ends at a node of the collection
Closed(nds, eds) ==
  \A i \in 1..Len(eds) : eds[i].source \in NodeIds(nds) /\ eds[i].target \in NodeIds(nds)

\* the operations said to keep the edges closed
KeepingOps ==
  {"addNode", "generateBulkNodes", "updateNode", "toggleNodeVisibility", "deleteNode",
   "clearFlow", "saveToLocalStorage", "timer", "loadFromLocalStorage", "onConnect"}

\* the stored record, when there is one, was written from closed edges
ClosedRecord == storage # <<>> => Closed(savedFrom.nodes, savedFrom.edges)

\* C29, as claimed: from a state in which every edge's source and target are ids of
\* nodes, each of addNode, generateBulkNodes, updateNode, toggleNodeVisibility,
\* deleteNode, clearFlow, save, load and onConnect between nodes keeps that so.
C29_OperationsKeepEdgesClosed ==
  [][(OperationStep /\ lastOp'.op \in KeepingOps /\ Closed(nodes, edges))
       => Closed(nodes', edges')]_vars

\* C29, amended: from a state in which that holds of the store and of the stored
\* record, if there is one, each of these operations keeps it so of both.
C29_OperationsKeepStoreAndRecordClosed ==
  [][(OperationStep /\ lastOp'.op \in KeepingOps /\ Closed(nodes, edges) /\ ClosedRecord)
       => (Closed(nodes', edges') /\ ClosedRecord')]_vars

\* a load that brought back a record with edges into a store that had changed
C29_Witness ==
  /\ LoadedOp
  /\ pre.storage # <<>>
  /\ Closed(pre.nodes, pre.edges)
  /\ Closed(nodes, edges)
  /\ edges # <<>>
  /\ nodes # pre.nodes

\* the record of an empty graph
EmptyRecord == JSONstringify([nodes |-> <<>>, edges |-> <<>>])

====
